---- MODULE Spec2Model ----
(***************************************************************************)
(* A model of artemis/experiments/experiment_record.py: the Experiment     *)
(* objects and their variant tree, the process-wide experiment library,    *)
(* the "current experiment" globals, the record directories and the        *)
(* run() / run_all() control flow, including the paths on which the        *)
(* wrapped function raises.                                                 *)
(*                                                                         *)
(* User code is the environment: it decorates functions, adds variants and *)
(* notes, calls run() and run_all(), and, from inside a running function,  *)
(* may call run() of an experiment or call an experiment as a plain        *)
(* function.  A function body ends by returning a value or by raising.     *)
(***************************************************************************)
EXTENDS Integers, Sequences, FiniteSets, TLC

VARIABLES
    experiments,   \* every Experiment object ever constructed, in creation order
    library,       \* GLOBAL_EXPERIMENT_LIBRARY: name -> index into experiments
    cur_id,        \* _CURRENT_EXPERIMENT_ID
    cur_name,      \* _CURRENT_EXPERIMENT_NAME
    cur_record,    \* _CURRENT_EXPERIMENT_RECORD: index into dirs, 0 for None
    test_mode,     \* the ambient flag behind is_test_mode() / set_test_mode()
    dirs,          \* the record directories made so far, one per call of run()
    scopes,        \* the context managers entered and not yet exited, oldest first
    stack,         \* the calls of run() / run_all() in progress, outermost first
    started,       \* log of the calls of run(): which experiment, called by whom
    last,          \* how the most recent API call ended
    procs          \* the processes of a multiprocessing.Pool, while there is one

\* cur_id, cur_name, cur_record, test_mode, scopes and stack are those of the
\* process that is executing; procs keeps those of the other processes
vars == <<experiments, library, cur_id, cur_name, cur_record, test_mode,
          dirs, scopes, stack, started, last, procs>>

----------------------------------------------------------------------------
(* Bounds of the model *)

\* Experiment objects constructed
MaxExp == 3
\* calls of run()
MaxRuns == 2
\* notes added, over all experiments
MaxNotes == 1
\* plain calls of an experiment made by one execution of a function
MaxCalls == 1
\* Experiment objects constructed where user code works on the records
MaxStoreExp == 2
\* multiprocessing.cpu_count(): the worker processes of a pool
Workers == 2

(* Inputs *)

FuncNames == {"f", "g"}             \* __name__ of the decorated functions
VariantNames == {"v", "w"}          \* names handed to add_variant
NoteTexts == {"n1"}
Versions == {"1"}                   \* the version strings handed to run()
OptBool == {"None", "True", "False"}   \* an optional boolean keyword argument

None == "None"

\* an optional version: <<>> is None
OptVersion == {<<>>} \cup {<<v>> : v \in Versions}

EmptyMap == [x \in {} |-> 0]

\* the declared keyword defaults of the decorated functions: def f(a=1, b=2)
Defaults(fname) ==
    IF fname = "f" THEN [x \in {"a", "b"} |-> IF x = "a" THEN 1 ELSE 2]
    ELSE [x \in {"a", "b"} |-> IF x = "a" THEN 3 ELSE 4]

\* the keyword arguments handed to add_variant(name, **kwargs): variant "v"
\* is always added as add_variant("v", a=5), "w" as add_variant("w", a=6, b=7)
KwargsOf(name) ==
    IF name = "v" THEN [x \in {"a"} |-> 5]
    ELSE [x \in {"a", "b"} |-> IF x = "a" THEN 6 ELSE 7]

\* the functions decorated with a display_function
HasDisplay(fname) == fname = "g"

\* f is decorated with @experiment_function or @experiment_root, g with
\* @ExperimentFunction(display_function = ...)
BaseRoots(fname) == IF fname = "f" THEN BOOLEAN ELSE {FALSE}

\* "v" is added with add_variant or add_root_variant, "w" with add_variant
VariantRoots(name) == IF name = "v" THEN BOOLEAN ELSE {FALSE}

\* the body of a decorated function, when it returns: f returns a + b and g
\* returns a * b
Function(fname, args) ==
    IF fname = "f" THEN args["a"] + args["b"] ELSE args["a"] * args["b"]

\* the body of a decorated function, when it fails: f raises ValueError("bad")
\* and g raises IOError("disk")
Raises(fname) ==
    IF fname = "f" THEN [kind |-> "ValueError", message |-> "bad"]
    ELSE [kind |-> "IOError", message |-> "disk"]

NoExc == [kind |-> "", message |-> ""]
AssertionError(msg) == [kind |-> "AssertionError", message |-> msg]
KeyError(msg) == [kind |-> "KeyError", message |-> msg]

----------------------------------------------------------------------------
(* Mappings (dict, OrderedDict) *)

\* d.update(e): the entries of e override those of d
Update(d, e) ==
    [x \in (DOMAIN d) \cup (DOMAIN e) |-> IF x \in DOMAIN e THEN e[x] ELSE d[x]]

\* d[k] = v
Put(d, k, v) == [x \in (DOMAIN d) \cup {k} |-> IF x = k THEN v ELSE d[x]]

\* the last element of a sequence
Top(s) == s[Len(s)]
Pop(s) == SubSeq(s, 1, Len(s) - 1)

----------------------------------------------------------------------------
(* Processes *)

\* no pool: process 0, the one user code started, is the only one
NoPool == [cur |-> 0, saved |-> <<>>, tasks |-> <<>>, failed |-> <<>>]

\* the worker loop of the pool catches what a task raises and keeps it for
\* process 0; l is how the call of run() ended, stk the stack it ended on
PoolResult(l, stk) ==
    IF procs.cur > 0 /\ Len(stk) = 1 /\ l.outcome = "raised"
    THEN [procs EXCEPT !.failed = Append(@, l.exc)]
    ELSE procs

----------------------------------------------------------------------------
(* The outcome of the most recent API call *)

\* op: the call; exp: the experiment it was made on; outcome: "started",
\* "returned" or "raised", and exc what it raised; rec: the record directory of
\* a run; fn: how the wrapped function of a run ended, fexc what it raised and
\* value what it returned; old_test_mode: the ambient flag when run() was
\* called; nested: run() was called while a run was in flight; result: what a
\* lookup returned, <<>> for None and <<x>> for x; events: what the exit of
\* record_experiment did, in order; keep_record: the keep_record argument of
\* run()
NoCall == [op |-> "none", exp |-> 0, name |-> "", outcome |-> "none", exc |-> NoExc,
           rec |-> 0, fn |-> "none", fexc |-> NoExc, value |-> 0,
           old_test_mode |-> FALSE, nested |-> FALSE, result |-> <<>>,
           events |-> <<>>, keep_record |-> "None", version |-> <<>>]

----------------------------------------------------------------------------
(* Experiment objects *)

\* GLOBAL_EXPERIMENT_LIBRARY[experiment.name] = experiment
register_experiment(lib, name, e) == Put(lib, name, e)

\* Experiment.__init__: the new object is appended to the arena exps; a
\* non-root experiment registers itself in lib
ExperimentInit(exps, lib, name, function, display, info, is_root) ==
    LET e == Len(exps) + 1
        ex == [name |-> name, function |-> function, display |-> display,
               variants |-> <<>>, info |-> info, notes |-> <<>>,
               is_root |-> is_root]
    IN  [experiments |-> Append(exps, ex),
         library |-> IF is_root THEN lib ELSE register_experiment(lib, name, e)]

\* a decorated function: it carries is_base_experiment
BaseFunction(fname) ==
    [is_base_experiment |-> TRUE, fname |-> fname, target |-> 0, keywords |-> EmptyMap]

\* functools.partial(parent, **kwargs): no is_base_experiment attribute
Partial(parent, kwargs) ==
    [is_base_experiment |-> FALSE, fname |-> "partial", target |-> parent,
     keywords |-> kwargs]

AtTopLevel == stack = <<>>

\* the experiments are defined when the modules load, before anything runs
Loading == AtTopLevel /\ started = <<>>

\* ExperimentFunction.__call__ (@experiment_function, @experiment_root)
ExperimentFunction(fname, is_root) ==
    /\ Loading
    /\ Len(experiments) < MaxExp
    /\ LET new == ExperimentInit(experiments, library, fname, BaseFunction(fname),
                     HasDisplay(fname),
                     [k \in {"Root Experiment", "Defined in"} |->
                        IF k = "Root Experiment" THEN fname ELSE "module.py"],
                     is_root)
       IN  /\ experiments' = new.experiments
           /\ library' = new.library
    /\ last' = NoCall
    /\ UNCHANGED <<procs, cur_id, cur_name, cur_record, test_mode, dirs, scopes,
                   stack, started>>

\* is name a key of the OrderedDict variants
HasVariant(variants, name) == \E i \in 1..Len(variants) : variants[i][1] = name

\* self.variants[name] = ex on an OrderedDict: a new key goes last, an old key
\* keeps its place
SetVariant(variants, name, e) ==
    IF HasVariant(variants, name)
    THEN [i \in 1..Len(variants) |->
            IF variants[i][1] = name THEN <<name, e>> ELSE variants[i]]
    ELSE Append(variants, <<name, e>>)

\* the assert of _create_experiment_variant left out
VariantNameNotChecked(p, name) == TRUE

\* the assert of _create_experiment_variant
VariantNameFree(p, name) == ~HasVariant(experiments[p].variants, name)

\* Experiment._create_experiment_variant, reached from add_variant (is_root
\* FALSE) and add_root_variant (is_root TRUE)
create_experiment_variant(p, name, is_root) ==
    /\ Loading
    /\ p \in 1..Len(experiments)
    /\ IF VariantNameFree(p, name)
       THEN /\ Len(experiments) < MaxExp
            /\ LET e == Len(experiments) + 1
                   variants == experiments[p].variants
                   new == ExperimentInit(experiments, library,
                             experiments[p].name \o "." \o name,
                             Partial(p, KwargsOf(name)),
                             experiments[p].display, EmptyMap, is_root)
               IN  /\ experiments' = [new.experiments EXCEPT
                                        ![p].variants = SetVariant(variants, name, e)]
                   /\ library' = new.library
                   /\ last' = [NoCall EXCEPT !.op = "add_variant", !.exp = p,
                                             !.name = name,
                                             !.outcome = "returned"]
       ELSE /\ UNCHANGED <<experiments, library>>
            /\ last' = [NoCall EXCEPT !.op = "add_variant", !.exp = p,
                          !.name = name, !.outcome = "raised",
                          !.exc = AssertionError("Variant already exists.")]
    /\ UNCHANGED <<procs, cur_id, cur_name, cur_record, test_mode, dirs, scopes,
                   stack, started>>

\* the notes added so far, over all experiments
RECURSIVE CountNotes(_)
CountNotes(i) ==
    IF i = 0 THEN 0 ELSE Len(experiments[i].notes) + CountNotes(i - 1)
NotesAdded == CountNotes(Len(experiments))

\* Experiment.add_note
add_note(e, note) ==
    /\ Loading
    /\ e \in 1..Len(experiments)
    /\ NotesAdded < MaxNotes
    /\ experiments' = [experiments EXCEPT ![e].notes = Append(@, note)]
    /\ last' = NoCall
    /\ UNCHANGED <<procs, library, cur_id, cur_name, cur_record, test_mode, dirs,
                   scopes, stack, started>>

\* Experiment.get_all_variants(include_roots): pre-order; the recursive call
\* passes no include_roots
RECURSIVE get_all_variants(_, _)
RECURSIVE VariantsOf(_, _)
\* get_all_variants without the test of is_root
get_all_variants_with_roots(e, include_roots) ==
    <<e>> \o VariantsOf(experiments[e].variants, 1)

get_all_variants(e, include_roots) ==
    (IF ~experiments[e].is_root \/ include_roots THEN <<e>> ELSE <<>>)
        \o VariantsOf(experiments[e].variants, 1)
VariantsOf(variants, i) ==
    IF i > Len(variants) THEN <<>>
    ELSE get_all_variants(variants[i][2], FALSE) \o VariantsOf(variants, i + 1)

----------------------------------------------------------------------------
(* Record directories *)

\* datetime.now().isoformat() of the n-th call of run() in the process, as
\* format_filename writes it
TimeStamp(n) == "2024.01.01-00.00.00.00000" \o ToString(n)

\* format_filename(file_string = '%T-%N', base_name = name, current_time = now)
format_filename(name, n) == TimeStamp(n) \o "-" \o name

\* os.path.join that keeps a before an absolute b
os_path_join_keeps_head(a, b) == a \o "/" \o b

\* os.path.join(a, b): an absolute b replaces a
os_path_join(a, b) == IF Head(b) = "/" THEN b ELSE a \o "/" \o b

\* get_local_path(relative_path): under the artemis directory of the user
get_local_path(relative_path) == os_path_join("/home/.artemis", relative_path)

\* get_local_experiment_path(identifier)
get_local_experiment_path(identifier) ==
    os_path_join(get_local_path("experiments"), identifier)

\* experiment_directory without the test of use_temp_dir
experiment_directory_in_store(identifier, use_temp_dir, n) ==
    get_local_path("experiments/" \o identifier)

\* the experiment_directory of the n-th call of run(): tempfile.mkdtemp() or
\* the directory of the identifier in the record store
experiment_directory(identifier, use_temp_dir, n) ==
    IF use_temp_dir THEN "/tmp/tmp" \o ToString(n)
    ELSE get_local_path("experiments/" \o identifier)

\* the directory make_dir creates for the n-th call of run(): no info.pkl, no
\* result.pkl yet; result is the content of result.pkl, and saved the last
\* value handed to save_result on a record of this directory, if any; exists
\* is os.path.exists of the directory
NewDir(identifier, use_temp_dir) ==
    [identifier |-> identifier, temp |-> use_temp_dir, info |-> EmptyMap,
     result |-> <<>>, saved |-> <<>>, exists |-> TRUE,
     directory |-> experiment_directory(identifier, use_temp_dir, Len(dirs) + 1)]

\* ExperimentRecord.add_info, on record r of the directories ds
add_info(ds, r, field, data) == [ds EXCEPT ![r].info = Put(@, field, data)]

\* PersistentOrderedDict.__getitem__ succeeds: the field is in the store
HasInfo(ds, r, field) == field \in DOMAIN ds[r].info

\* ExperimentRecord.add_note: get_info('Notes') fails when the record has no
\* Notes field
add_record_note(ds, r, note) ==
    IF HasInfo(ds, r, "Notes")
    THEN [ok |-> TRUE,
          dirs |-> add_info(ds, r, "Notes", Append(ds[r].info["Notes"], note))]
    ELSE [ok |-> FALSE, dirs |-> ds]

\* for n in self._notes: r.add_note(n), stopping at the first failure
RECURSIVE AddNotes(_, _, _, _)
AddNotes(ds, r, notes, i) ==
    IF i > Len(notes) THEN [ok |-> TRUE, dirs |-> ds]
    ELSE LET one == add_record_note(ds, r, notes[i])
         IN  IF one.ok THEN AddNotes(one.dirs, r, notes, i + 1) ELSE one

\* for key, val in self.info.iteritems(): r.add_info(key, val)
MergeInfo(ds, r, info) == [ds EXCEPT ![r].info = Update(@, info)]

\* pickle.dump(result, f, protocol = 2) and pickle.load(f)
pickle_dump(value) == [protocol |-> 2, obj |-> value]
pickle_load(f) == f.obj

\* ExperimentRecord.save_result on record r: the file is written at
\* get_local_experiment_path(<directory>/result.pkl), which is the result.pkl
\* of the directory that has this path, made by make_file_dir if it
\* is not there
save_result(ds, r, value) ==
    LET file_path == get_local_experiment_path(
                        os_path_join(ds[r].directory, "result.pkl"))
    IN  [k \in 1..Len(ds) |->
            IF os_path_join(ds[k].directory, "result.pkl") = file_path
            THEN [ds[k] EXCEPT !.result = <<pickle_dump(value)>>,
                               !.exists = TRUE,
                               !.saved = IF k = r THEN <<value>> ELSE @]
            ELSE IF k = r THEN [ds[k] EXCEPT !.saved = <<value>>] ELSE ds[k]]

\* ExperimentRecord.get_result on record r: None (here <<>>) when there is no
\* result.pkl
get_result(ds, r) ==
    IF ds[r].result # <<>> THEN <<pickle_load(ds[r].result[1])>> ELSE <<>>

----------------------------------------------------------------------------
(* The current experiment *)

\* _register_current_experiment without its assert
register_without_assert(name, identifier) ==
    [ok |-> TRUE, id |-> identifier, name |-> name]

\* _register_current_experiment: the assert, then the two assignments
register_current_experiment(name, identifier) ==
    IF cur_id = None
    THEN [ok |-> TRUE, id |-> identifier, name |-> name]
    ELSE [ok |-> FALSE, id |-> cur_id, name |-> cur_name]

\* _deregister_current_experiment
deregister_current_experiment ==
    /\ cur_id' = None
    /\ cur_name' = None

----------------------------------------------------------------------------
(* Calling an experiment *)

\* Experiment.__call__(**kwargs) of e when its function is a partial: the call
\* goes on to the parent with the partial's keywords overridden by kwargs,
\* down to the base experiment
RECURSIVE Resolve(_, _)
Resolve(e, kwargs) ==
    IF experiments[e].function.is_base_experiment
    THEN [base |-> e, kwargs |-> kwargs]
    ELSE Resolve(experiments[e].function.target,
                 Update(experiments[e].function.keywords, kwargs))

\* get_final_args: the declared defaults overridden by the keyword arguments
get_final_args(kwargs, defaults) == Update(defaults, kwargs)

\* Experiment.__call__ of base experiment b while a record is current, up to
\* the call of the function: Args, Function and Module go to record r
CallPrologue(ds, r, b, kwargs) ==
    LET fname == experiments[b].function.fname
        named_args == get_final_args(kwargs, Defaults(fname))
    IN  add_info(add_info(add_info(ds, r, "Args", named_args),
                          r, "Function", fname),
                 r, "Module", "module.py")

\* 'Had an Error: %s: %s' % (err.__class__.__name__, err.message)
ErrorStatus(err) == "Had an Error: " \o err.kind \o ": " \o err.message

\* Experiment.__call__ from the end of the function: the Status, then the
\* finally block, which reads the figures of _CURRENT_EXPERIMENT_RECORD and
\* adds the notes of b; exc is what the finally block raises, if anything
CallEpilogue(ds, r, b, status) ==
    LET d1 == add_info(ds, r, "Status", status)
    IN  IF cur_record = 0
        THEN [dirs |-> d1, exc |-> [kind |-> "AttributeError", message |-> "get_figure_locs"]]
        ELSE LET d2 == add_info(add_info(add_info(d1,
                           r, "# Figures Generated", 0),
                           r, "Figures Generated", <<>>),
                           r, "Run Time", "elapsed")
                 d3 == MergeInfo(d2, r, experiments[b].info)
                 d4 == AddNotes(d3, r, experiments[b].notes, 1)
             IN  [dirs |-> d4.dirs,
                  exc |-> IF d4.ok THEN NoExc ELSE KeyError("Notes")]

----------------------------------------------------------------------------
(* run() *)

NoFrame == [kind |-> "none", exp |-> 0, base |-> 0, rec |-> 0, args |-> EmptyMap,
            test_mode |-> FALSE, old_test_mode |-> FALSE, pc |-> "none",
            value |-> 0, list |-> <<>>, i |-> 0, calls |-> 0]

\* a run is in flight: its function or its display function is executing
InFlight == \E k \in 1..Len(stack) : stack[k].kind = "run"

\* user code of the wrapped function is executing
InFunction ==
    /\ stack # <<>>
    /\ Top(stack).kind = "run"
    /\ Top(stack).pc = "function"

\* who calls run()
Caller ==
    IF stack = <<>> THEN (IF procs.cur = 0 THEN "user" ELSE "pool")
    ELSE IF Top(stack).kind = "run_all" THEN "run_all" ELSE "function"

\* an exception reaches the caller below: the loop of run_all has no handler
Raise(stk) ==
    IF stk # <<>> /\ Top(stk).kind = "run_all"
    THEN [stk EXCEPT ![Len(stk)].pc = "raise"]
    ELSE stk

\* a call returns to the caller below: the loop of run_all goes on
Return(stk) ==
    IF stk # <<>> /\ Top(stk).kind = "run_all"
    THEN [stk EXCEPT ![Len(stk)].i = @ + 1]
    ELSE stk

\* the three context managers record_experiment enters, in the order entered
EnterScopes(s, r) ==
    s \o <<[scope |-> "log", rec |-> r], [scope |-> "show", rec |-> r],
           [scope |-> "save", rec |-> r]>>

\* __exit__ of one of them
ExitScope(s, scope, r) == SelectSeq(s, LAMBDA x : ~(x.scope = scope /\ x.rec = r))

\* the order of the three __exit__ calls after the yield of record_experiment
ExitOrder == <<"show", "log", "save">>

\* the exits after the yield of record_experiment, in the order of the code
ExitScopes(s, r) ==
    ExitScope(ExitScope(ExitScope(s, ExitOrder[1], r), ExitOrder[2], r),
              ExitOrder[3], r)

\* what record_experiment does after its yield, in order
ExitEvents ==
    <<"record = None">> \o [k \in 1..Len(ExitOrder) |-> "exit " \o ExitOrder[k]]
        \o <<"deregister">>

\* Experiment.run and record_experiment, from the call to the point where the
\* decorated function starts to execute, or to the failure of
\* _register_current_experiment
StartRun(e, tm, kr, version) ==
    /\ e \in 1..Len(experiments)
    /\ Len(started) < MaxRuns
    /\ LET t == IF tm = None THEN test_mode ELSE tm = "True"
           keep_record == IF kr = None THEN ~t ELSE kr = "True"
           n == Len(dirs) + 1
           name == experiments[e].name
           identifier == format_filename(name, n)
           made == Append(dirs, NewDir(identifier, ~keep_record))
           reg == register_current_experiment(name, identifier)
           call == Resolve(e, EmptyMap)
           call_info == [NoCall EXCEPT !.op = "run", !.exp = e, !.rec = n,
                                       !.old_test_mode = test_mode,
                                       !.nested = InFlight,
                                       !.keep_record = kr,
                                       !.version = version]
       IN  /\ test_mode' = t
           /\ started' = Append(started, [exp |-> e, by |-> Caller,
                                          version |-> version])
           /\ scopes' = EnterScopes(scopes, n)
           /\ IF reg.ok
              THEN /\ cur_id' = reg.id
                   /\ cur_name' = reg.name
                   /\ cur_record' = n
                   /\ dirs' = CallPrologue(
                                add_info(add_info(add_info(made,
                                    n, "Name", name),
                                    n, "Identifier", identifier),
                                    n, "Directory", made[n].directory),
                                n, call.base, call.kwargs)
                   /\ stack' = Append(stack,
                         [NoFrame EXCEPT !.kind = "run", !.exp = e,
                            !.base = call.base, !.rec = n,
                            !.args = get_final_args(call.kwargs,
                                Defaults(experiments[call.base].function.fname)),
                            !.test_mode = t, !.old_test_mode = test_mode,
                            !.pc = "function"])
                   /\ last' = [call_info EXCEPT !.outcome = "started"]
              ELSE /\ dirs' = made
                   /\ stack' = Raise(stack)
                   /\ last' = [call_info EXCEPT !.outcome = "raised",
                                 !.exc = AssertionError("You cannot start experiment")]
                   /\ UNCHANGED <<cur_id, cur_name, cur_record>>
    /\ UNCHANGED <<experiments, library>>

\* user code at top level calls e.run(test_mode = tm, keep_record = kr)
Run(e, tm, kr) ==
    /\ AtTopLevel
    /\ procs.cur = 0
    /\ StartRun(e, tm, kr, <<>>)
    /\ UNCHANGED procs

\* user code at top level calls e.run(version = version)
RunVersion(e, version) ==
    /\ AtTopLevel
    /\ procs.cur = 0
    /\ StartRun(e, None, None, version)
    /\ UNCHANGED procs

\* the function of a run in flight calls e.run()
NestedRun(e) ==
    /\ InFunction
    /\ StartRun(e, None, None, <<>>)
    /\ UNCHANGED procs

\* what run() reports when it ends, from its frame fr
EndOfRun(fr) ==
    [NoCall EXCEPT !.op = "run", !.exp = fr.exp, !.rec = fr.rec,
                   !.old_test_mode = fr.old_test_mode,
                   !.version = started[fr.rec].version,
                   !.nested = \E k \in 1..(Len(stack) - 1) : stack[k].kind = "run"]

\* run() after the display function, or with none: set_test_mode(old_test_mode)
\* and return exp_rec
FinishRun(fr, value, events) ==
    /\ test_mode' = fr.old_test_mode
    /\ stack' = Return(Pop(stack))
    /\ last' = [EndOfRun(fr) EXCEPT !.outcome = "returned", !.fn = "returned",
                                    !.value = value, !.events = events]

\* the decorated function returns: the rest of Experiment.__call__, the exit
\* of record_experiment, save_result, and the rest of run() up to the display
\* function
FunctionReturn ==
    /\ InFunction
    /\ LET fr == Top(stack)
           value == Function(experiments[fr.base].function.fname, fr.args)
           ep == CallEpilogue(dirs, fr.rec, fr.base, "Ran Successfully")
       IN  IF ep.exc = NoExc
           THEN /\ cur_record' = 0
                /\ scopes' = ExitScopes(scopes, fr.rec)
                /\ deregister_current_experiment
                /\ dirs' = save_result(ep.dirs, fr.rec, value)
                /\ IF experiments[fr.exp].display
                   THEN /\ stack' = [stack EXCEPT ![Len(stack)].pc = "display",
                                                  ![Len(stack)].value = value]
                        /\ last' = [EndOfRun(fr) EXCEPT !.outcome = "display",
                                      !.fn = "returned", !.value = value,
                                      !.events = ExitEvents]
                        /\ UNCHANGED test_mode
                   ELSE FinishRun(fr, value, ExitEvents)
           ELSE /\ dirs' = ep.dirs
                /\ stack' = Raise(Pop(stack))
                /\ last' = [EndOfRun(fr) EXCEPT !.outcome = "raised",
                              !.exc = ep.exc, !.fn = "returned", !.value = value]
                /\ UNCHANGED <<cur_id, cur_name, cur_record, scopes, test_mode>>
    /\ procs' = PoolResult(last', stack)
    /\ UNCHANGED <<experiments, library, started>>

\* a run() that saves a result also when the decorated function raised
FunctionRaiseSavesResult ==
    /\ InFunction
    /\ LET fr == Top(stack)
           err == Raises(experiments[fr.base].function.fname)
           ep == CallEpilogue(dirs, fr.rec, fr.base, ErrorStatus(err))
       IN  /\ dirs' = save_result(ep.dirs, fr.rec, 0)
           /\ stack' = Raise(Pop(stack))
           /\ last' = [EndOfRun(fr) EXCEPT !.outcome = "raised",
                         !.exc = IF ep.exc = NoExc THEN err ELSE ep.exc,
                         !.fn = "raised", !.fexc = err]
    /\ procs' = PoolResult(last', stack)
    /\ UNCHANGED <<experiments, library, cur_id, cur_name, cur_record, scopes,
                   test_mode, started>>

\* the decorated function raises: the rest of Experiment.__call__; the
\* exception leaves record_experiment at its yield and then leaves run()
FunctionRaise ==
    /\ InFunction
    /\ LET fr == Top(stack)
           err == Raises(experiments[fr.base].function.fname)
           ep == CallEpilogue(dirs, fr.rec, fr.base, ErrorStatus(err))
       IN  /\ dirs' = ep.dirs
           /\ stack' = Raise(Pop(stack))
           /\ last' = [EndOfRun(fr) EXCEPT !.outcome = "raised",
                         !.exc = IF ep.exc = NoExc THEN err ELSE ep.exc,
                         !.fn = "raised", !.fexc = err]
    /\ procs' = PoolResult(last', stack)
    /\ UNCHANGED <<experiments, library, cur_id, cur_name, cur_record, scopes,
                   test_mode, started>>

\* the display function returns
DisplayReturn ==
    /\ stack # <<>>
    /\ Top(stack).kind = "run"
    /\ Top(stack).pc = "display"
    /\ FinishRun(Top(stack), Top(stack).value, last.events)
    /\ procs' = PoolResult(last', stack)
    /\ UNCHANGED <<experiments, library, cur_id, cur_name, cur_record, dirs,
                   scopes, started>>

\* the display function raises: the exception leaves run()
DisplayRaise ==
    /\ stack # <<>>
    /\ Top(stack).kind = "run"
    /\ Top(stack).pc = "display"
    /\ stack' = Raise(Pop(stack))
    /\ last' = [EndOfRun(Top(stack)) EXCEPT !.outcome = "raised",
                  !.exc = [kind |-> "DisplayError", message |-> "display"],
                  !.fn = "returned", !.value = Top(stack).value,
                  !.events = last.events]
    /\ procs' = PoolResult(last', stack)
    /\ UNCHANGED <<experiments, library, cur_id, cur_name, cur_record, dirs,
                   scopes, test_mode, started>>

\* the function of a run in flight calls base experiment e as a plain function,
\* e(), and the function of e returns
PlainCall(e) ==
    /\ InFunction
    /\ e \in 1..Len(experiments)
    /\ experiments[e].function.is_base_experiment
    /\ Top(stack).calls < MaxCalls
    /\ LET call == Resolve(e, EmptyMap)
           r == cur_record
           ep == CallEpilogue(CallPrologue(dirs, r, call.base, call.kwargs),
                              r, call.base, "Ran Successfully")
           exc == IF r # 0 THEN ep.exc ELSE NoExc
       IN  /\ dirs' = IF r = 0 THEN dirs ELSE ep.dirs
           /\ last' = [NoCall EXCEPT !.op = "call", !.exp = e, !.rec = r,
                         !.outcome = IF exc = NoExc THEN "returned" ELSE "raised",
                         !.exc = exc]
    /\ stack' = [stack EXCEPT ![Len(stack)].calls = @ + 1]
    /\ UNCHANGED <<procs, experiments, library, cur_id, cur_name, cur_record, scopes,
                   test_mode, started>>

----------------------------------------------------------------------------
(* run_all() *)

\* Experiment.run_all: experiments = self.get_all_variants()
run_all(e) ==
    /\ AtTopLevel
    /\ e \in 1..Len(experiments)
    /\ Len(started) < MaxRuns
    /\ stack' = <<[NoFrame EXCEPT !.kind = "run_all", !.exp = e, !.pc = "loop",
                     !.list = get_all_variants(e, FALSE), !.i = 1,
                     !.rec = Len(started)]>>
    /\ last' = [NoCall EXCEPT !.op = "run_all", !.exp = e, !.outcome = "started"]
    /\ UNCHANGED <<procs, experiments, library, cur_id, cur_name, cur_record, test_mode,
                   dirs, scopes, started>>

InRunAll(pc) ==
    /\ stack # <<>>
    /\ Top(stack).kind = "run_all"
    /\ Top(stack).pc = pc

\* for ex in experiments: ex.run()
RunAllStep ==
    /\ InRunAll("loop")
    /\ Top(stack).i <= Len(Top(stack).list)
    /\ StartRun(Top(stack).list[Top(stack).i], None, None, <<>>)
    /\ UNCHANGED procs

\* the loop of run_all is over
RunAllReturn ==
    /\ InRunAll("loop")
    /\ Top(stack).i > Len(Top(stack).list)
    /\ stack' = Pop(stack)
    /\ last' = [NoCall EXCEPT !.op = "run_all", !.exp = Top(stack).exp,
                  !.outcome = "returned", !.rec = Top(stack).rec]
    /\ UNCHANGED <<procs, experiments, library, cur_id, cur_name, cur_record, test_mode,
                   dirs, scopes, started>>

\* a run() of the loop raised: the exception leaves run_all
RunAllRaise ==
    /\ InRunAll("raise")
    /\ stack' = Pop(stack)
    /\ last' = [NoCall EXCEPT !.op = "run_all", !.exp = Top(stack).exp,
                  !.outcome = "raised", !.exc = last.exc, !.rec = Top(stack).rec]
    /\ UNCHANGED <<procs, experiments, library, cur_id, cur_name, cur_record, test_mode,
                   dirs, scopes, started>>

----------------------------------------------------------------------------
(* run_all_multiprocess() *)

\* the globals of the executing process
Globals ==
    [cur_id |-> cur_id, cur_name |-> cur_name, cur_record |-> cur_record,
     test_mode |-> test_mode, scopes |-> scopes, stack |-> stack]

\* the place in procs.saved of the process that is executing
Executing == [cur_id |-> None, cur_name |-> None, cur_record |-> 0,
              test_mode |-> FALSE, scopes |-> <<>>, stack |-> <<>>]

\* Experiment.run_all_multiprocess: the pool forks its workers, each with a
\* copy of the globals and nothing on its stack, and p.map queues the names;
\* place Workers + 1 of procs.saved is process 0
run_all_multiprocess(e) ==
    /\ AtTopLevel
    /\ procs = NoPool
    /\ e \in 1..Len(experiments)
    /\ LET list == get_all_variants(e, FALSE)
       IN  /\ stack' = <<[NoFrame EXCEPT !.kind = "pool", !.exp = e, !.pc = "map",
                            !.list = list, !.rec = Len(started)]>>
           /\ procs' = [cur |-> 0,
                        saved |-> [w \in 1..(Workers + 1) |->
                                     IF w <= Workers THEN Globals ELSE Executing],
                        tasks |-> [k \in 1..Len(list) |-> experiments[list[k]].name],
                        failed |-> <<>>]
    /\ last' = [NoCall EXCEPT !.op = "run_all_multiprocess", !.exp = e,
                              !.outcome = "started"]
    /\ UNCHANGED <<experiments, library, cur_id, cur_name, cur_record, test_mode,
                   dirs, scopes, started>>

\* the place of process p in procs.saved
Place(p) == IF p = 0 THEN Workers + 1 ELSE p

\* the operating system takes the processor from the executing process and
\* gives it to process p
Switch(p) ==
    /\ procs.saved # <<>>
    /\ p \in 0..Workers
    /\ p # procs.cur
    /\ LET g == procs.saved[Place(p)]
       IN  /\ cur_id' = g.cur_id
           /\ cur_name' = g.cur_name
           /\ cur_record' = g.cur_record
           /\ test_mode' = g.test_mode
           /\ scopes' = g.scopes
           /\ stack' = g.stack
    /\ procs' = [procs EXCEPT !.cur = p,
                              !.saved[Place(procs.cur)] = Globals,
                              !.saved[Place(p)] = Executing]
    /\ UNCHANGED <<experiments, library, dirs, started, last>>

\* a worker that has nothing to do takes the next name and calls
\* run_experiment(name): experiment = exp_dict[name]; experiment.run()
WorkerRun ==
    /\ procs.cur > 0
    /\ stack = <<>>
    /\ procs.tasks # <<>>
    /\ StartRun(library[Head(procs.tasks)], None, None, <<>>)
    /\ procs' = [procs EXCEPT !.tasks = Tail(@),
                              !.failed = IF last'.outcome = "raised"
                                         THEN Append(@, last'.exc) ELSE @]

\* p.map in process 0 returns when every name has been taken and every worker
\* is done, and raises if a run raised; the pool goes with the call
PoolReturn ==
    /\ procs.cur = 0
    /\ stack # <<>>
    /\ Top(stack).kind = "pool"
    /\ procs.tasks = <<>>
    /\ \A w \in 1..Workers : procs.saved[w].stack = <<>>
    /\ stack' = Pop(stack)
    /\ procs' = NoPool
    /\ last' = [NoCall EXCEPT !.op = "run_all_multiprocess", !.exp = Top(stack).exp,
                  !.rec = Top(stack).rec,
                  !.outcome = IF procs.failed = <<>> THEN "returned" ELSE "raised",
                  !.exc = IF procs.failed = <<>> THEN NoExc ELSE procs.failed[1]]
    /\ UNCHANGED <<experiments, library, cur_id, cur_name, cur_record, test_mode,
                   dirs, scopes, started>>

----------------------------------------------------------------------------
(* Identifiers and the regular expressions that find them *)

\* the character at place i of a string
Char(s, i) == SubSeq(s, i, i)

IsDigit(c) == c \in {"0", "1", "2", "3", "4", "5", "6", "7", "8", "9"}

IsAlnum(c) ==
    \/ IsDigit(c)
    \/ c \in {"a", "b", "c", "d", "e", "f", "g", "h", "i", "j", "k", "l", "m",
              "n", "o", "p", "q", "r", "s", "t", "u", "v", "w", "x", "y", "z",
              "T"}

\* re.escape(pattern): a backslash before every character that is not
\* alphanumeric
RECURSIVE re_escape(_)
re_escape(pattern) ==
    IF pattern = "" THEN ""
    ELSE (IF IsAlnum(Head(pattern)) THEN Head(pattern) ELSE "\\" \o Head(pattern))
            \o re_escape(Tail(pattern))

\* s.replace(old, new)
RECURSIVE str_replace(_, _, _)
str_replace(s, old, new) ==
    IF Len(s) < Len(old) THEN s
    ELSE IF SubSeq(s, 1, Len(old)) = old
         THEN new \o str_replace(SubSeq(s, Len(old) + 1, Len(s)), old, new)
         ELSE Head(s) \o str_replace(Tail(s), old, new)

\* the expression _get_matching_template_from_experiment_name puts for %T
TimeExpr ==
    "\\d\\d\\d\\d\\.\\d\\d\\.\\d\\d\\T\\d\\d\\.\\d\\d\\.\\d\\d\\.\\d\\d\\d\\d\\d\\d"

\* _get_matching_template_from_experiment_name; version <<>> is None
get_matching_template_from_experiment_name(experiment_name, version, template) ==
    LET versioned == IF version # <<>> THEN experiment_name \o "-" \o version[1]
                     ELSE experiment_name
        named_template == str_replace(template, "%N", re_escape(versioned))
        expr == str_replace(named_template, "%T", TimeExpr)
    IN  "^" \o expr \o "$"

\* re.match(expr, s) from place i of expr and place j of s, for the
\* expressions built above: ^, $, \d, an escaped character (an escaped letter
\* that has no meaning, as T, stands for itself), the dot, and plain characters
RECURSIVE MatchFrom(_, _, _, _)
MatchFrom(expr, i, s, j) ==
    IF i > Len(expr) THEN TRUE
    ELSE LET c == Char(expr, i)
         IN  IF c = "^" THEN j = 1 /\ MatchFrom(expr, i + 1, s, j)
             ELSE IF c = "$"
                  THEN /\ \/ j = Len(s) + 1
                          \/ j = Len(s) /\ Char(s, j) = "\n"
                       /\ MatchFrom(expr, i + 1, s, j)
             ELSE IF j > Len(s) THEN FALSE
             ELSE IF c = "\\"
                  THEN /\ i < Len(expr)
                       /\ IF Char(expr, i + 1) = "d" THEN IsDigit(Char(s, j))
                          ELSE Char(s, j) = Char(expr, i + 1)
                       /\ MatchFrom(expr, i + 2, s, j + 1)
             ELSE IF c = "." THEN Char(s, j) # "\n" /\ MatchFrom(expr, i + 1, s, j + 1)
             ELSE Char(s, j) = c /\ MatchFrom(expr, i + 1, s, j + 1)

re_match(expr, s) == MatchFrom(expr, 1, s, 1)

\* the characters of identifiers, in the order of their codes
Alphabet == "-.0123456789Tabcdefghijklmnopqrstuvwxyz"
Ord(c) == CHOOSE i \in 1..Len(Alphabet) : Char(Alphabet, i) = c

\* a < b as Python compares strings
RECURSIVE StrLess(_, _)
StrLess(a, b) ==
    IF b = "" THEN FALSE
    ELSE IF a = "" THEN TRUE
    ELSE IF Head(a) = Head(b) THEN StrLess(Tail(a), Tail(b))
    ELSE Ord(Head(a)) < Ord(Head(b))

\* sorted(ids)[-1]
Latest(ids) == CHOOSE x \in ids : \A y \in ids : ~StrLess(x, y)

\* get_all_experiment_ids(expr): the directories under experiments/ whose
\* name the expression matches; os.listdir gives them in no particular order
get_all_experiment_ids(ds, expr) ==
    {ds[r].identifier : r \in {k \in 1..Len(ds) :
        /\ ds[k].exists
        /\ ds[k].directory = get_local_experiment_path(ds[k].identifier)
        /\ re_match(expr, ds[k].identifier)}}

\* get_latest_experiment_identifier(name, version), called by user code
get_latest_experiment_identifier(name, version) ==
    /\ AtTopLevel
    /\ LET expr == get_matching_template_from_experiment_name(name, version, "%T-%N")
           matching_experiments == get_all_experiment_ids(dirs, expr)
       IN  last' = [NoCall EXCEPT !.op = "get_latest", !.name = name,
                      !.version = version,
                      !.outcome = "returned",
                      !.result = IF matching_experiments = {} THEN <<>>
                                 ELSE <<Latest(matching_experiments)>>]
    /\ UNCHANGED <<procs, experiments, library, cur_id, cur_name, cur_record, test_mode,
                   dirs, scopes, stack, started>>

----------------------------------------------------------------------------
(* Records in the hands of user code *)

\* the values user code saves
ResultValues == {7, 8}

\* user code calls save_result(value) on the record of directory r
user_save_result(r, value) ==
    /\ AtTopLevel
    /\ r \in 1..Len(dirs)
    /\ dirs' = save_result(dirs, r, value)
    /\ last' = [NoCall EXCEPT !.op = "save_result", !.rec = r, !.value = value,
                              !.outcome = "returned"]
    /\ UNCHANGED <<procs, experiments, library, cur_id, cur_name, cur_record, test_mode,
                   scopes, stack, started>>

\* user code calls get_result() on the record of directory r
user_get_result(r) ==
    /\ AtTopLevel
    /\ r \in 1..Len(dirs)
    /\ last' = [NoCall EXCEPT !.op = "get_result", !.rec = r,
                              !.result = get_result(dirs, r),
                              !.outcome = "returned"]
    /\ UNCHANGED <<procs, experiments, library, cur_id, cur_name, cur_record, test_mode,
                   dirs, scopes, stack, started>>

\* experiment_exists(identifier): os.path.exists of its path in the store
experiment_exists(ds, identifier) ==
    \E k \in 1..Len(ds) :
        ds[k].exists /\ ds[k].directory = get_local_experiment_path(identifier)

\* get_experiment_record(identifier), where its assert holds: the record of
\* the directory at the path of the identifier
get_experiment_record(ds, identifier) ==
    CHOOSE k \in 1..Len(ds) :
        ds[k].exists /\ ds[k].directory = get_local_experiment_path(identifier)

\* shutil.rmtree(path) of an existing directory: the directory and the files
\* in it are gone
rmtree(ds, path) ==
    [k \in 1..Len(ds) |->
        IF ds[k].directory = path
        THEN [ds[k] EXCEPT !.exists = FALSE, !.info = EmptyMap,
                           !.result = <<>>, !.saved = <<>>]
        ELSE ds[k]]

\* ExperimentRecord.delete on record r
record_delete(ds, r) == rmtree(ds, ds[r].directory)

\* the identifiers user code can know of: those of the records made so far
KnownIds == {dirs[r].identifier : r \in 1..Len(dirs)}

\* user code calls delete_experiment_with_id(experiment_identifier); result
\* keeps what experiment_exists answered
delete_experiment_with_id(experiment_identifier) ==
    /\ AtTopLevel
    /\ LET found == experiment_exists(dirs, experiment_identifier)
       IN  /\ dirs' = IF found
                      THEN record_delete(dirs,
                              get_experiment_record(dirs, experiment_identifier))
                      ELSE dirs
           /\ last' = [NoCall EXCEPT !.op = "delete",
                                     !.name = experiment_identifier,
                                     !.result = <<found>>,
                                     !.outcome = "returned"]
    /\ UNCHANGED <<procs, experiments, library, cur_id, cur_name, cur_record, test_mode,
                   scopes, stack, started>>

\* user code asks experiment_exists(identifier)
user_experiment_exists(identifier) ==
    /\ AtTopLevel
    /\ last' = [NoCall EXCEPT !.op = "exists", !.name = identifier,
                              !.result = <<experiment_exists(dirs, identifier)>>,
                              !.outcome = "returned"]
    /\ UNCHANGED <<procs, experiments, library, cur_id, cur_name, cur_record, test_mode,
                   dirs, scopes, stack, started>>

----------------------------------------------------------------------------
(* Properties *)

RunEnded == last.op = "run" /\ last.outcome \in {"returned", "raised"}

GuardIdle == cur_id = None /\ cur_name = None /\ cur_record = 0

\* a step that is a call of run()
RunCalled == Len(started') = Len(started) + 1

\* C1: once a call of run() has ended and no run is in flight, the three
\* globals of the current experiment are None, whether run() returned or raised.
C1_GuardIdleAfterRun == (RunEnded /\ ~InFlight) => GuardIdle

\* C2: a call of run() made while an experiment is registered fails on the
\* assert of _register_current_experiment, starts no run, and leaves the
\* registered identifier, name and record as they were.
C2_RegisterWhileRunningFails ==
    [][(RunCalled /\ cur_id # None) =>
          /\ last'.outcome = "raised"
          /\ last'.exc.kind = "AssertionError"
          /\ cur_id' = cur_id
          /\ cur_name' = cur_name
          /\ cur_record' = cur_record
          /\ \A k \in 1..Len(stack') : stack'[k].rec # Len(dirs') \/ stack'[k].kind # "run"]_vars

\* C2, witness: the function of a run in flight called run(), and the call failed
C2_Witness ==
    /\ last.op = "run"
    /\ last.nested
    /\ last.outcome = "raised"
    /\ InFunction
    /\ cur_id = dirs[Top(stack).rec].identifier

\* C3: a call of run() made while a run is in flight fails and creates no
\* record directory and opens no capture scope, and the record of the run in
\* flight is unchanged.
C3_BlockedRunMutatesNothing ==
    [][(RunCalled /\ InFlight) =>
          /\ last'.outcome = "raised"
          /\ dirs' = dirs
          /\ scopes' = scopes]_vars

\* C4: when the function of a run raised, the record's Status is
\* 'Had an Error: <kind>: <message>' of that exception and run() raised that
\* same exception.
C4_ErrorStatusAndPropagation ==
    (RunEnded /\ last.fn = "raised") =>
        /\ HasInfo(dirs, last.rec, "Status")
        /\ dirs[last.rec].info["Status"] = ErrorStatus(last.fexc)
        /\ last.outcome = "raised"
        /\ last.exc = last.fexc

\* C5: the ambient test-mode flag is the resolved test_mode of the run while
\* its function executes, and is back at its old value once run() has ended,
\* returned or raised.
C5_TestModeScoped ==
    /\ InFunction => test_mode = Top(stack).test_mode
    /\ RunEnded => test_mode = last.old_test_mode

\* C6: a name that is in the library keeps the experiment it maps to: a second
\* registration under that name is refused.
C6_DuplicateNameRejected ==
    [][\A n \in DOMAIN library :
          n \in DOMAIN library' /\ library'[n] = library[n]]_vars

\* C7: add_variant / add_root_variant with a name that is already a key of
\* the parent's variants fails, and leaves every experiment (so every variants
\* mapping) and the library as they were.
C7_DuplicateVariantRejected ==
    [][(last'.op = "add_variant"
          /\ HasVariant(experiments[last'.exp].variants, last'.name)) =>
          /\ last'.outcome = "raised"
          /\ experiments' = experiments
          /\ library' = library]_vars

\* C7, witness: an add_variant with a name the parent already has has failed
C7_Witness ==
    /\ last.op = "add_variant"
    /\ last.outcome = "raised"
    /\ HasVariant(experiments[last.exp].variants, last.name)

\* x is e or a variant, at any depth, of e (by the partials' targets)
RECURSIVE InSubtree(_, _)
InSubtree(x, e) ==
    \/ x = e
    \/ /\ ~experiments[x].function.is_base_experiment
       /\ InSubtree(experiments[x].function.target, e)

\* the experiments run_all started since call number from of run()
RunsOfRunAll(from) ==
    LET calls == SelectSeq(SubSeq(started, from + 1, Len(started)),
                           LAMBDA c : c.by = "run_all")
    IN  [k \in 1..Len(calls) |-> calls[k].exp]

IsPrefix(s, t) == Len(s) <= Len(t) /\ s = SubSeq(t, 1, Len(s))

NoRepeats(s) == \A j, k \in 1..Len(s) : j # k => s[j] # s[k]

C9_BaseRunRecord ==
    (/\ RunEnded
     /\ last.fn = "returned"
     /\ last.exc.kind # "DisplayError"
     /\ experiments[last.exp].function.is_base_experiment) =>
        /\ last.outcome = "returned"
        /\ HasInfo(dirs, last.rec, "Args")
        /\ dirs[last.rec].info["Args"] =
              Defaults(experiments[last.exp].function.fname)
        /\ HasInfo(dirs, last.rec, "Status")
        /\ dirs[last.rec].info["Status"] = "Ran Successfully"
        /\ get_result(dirs, last.rec) = <<last.value>>

\* the defaults of the base function overridden by the keywords of each
\* level, from the base to e
RECURSIVE ChainArgs(_)
ChainArgs(e) ==
    IF experiments[e].function.is_base_experiment
    THEN Defaults(experiments[e].function.fname)
    ELSE Update(ChainArgs(experiments[e].function.target),
                experiments[e].function.keywords)

\* C10: the name of a variant is its parent's name, a dot and its own segment,
\* and a run of a variant, started while no run is in flight, leaves Args in
\* its record equal to the defaults overridden level by level.
C10_VariantNameAndArgs ==
    /\ \A p \in 1..Len(experiments) :
          \A i \in 1..Len(experiments[p].variants) :
             experiments[experiments[p].variants[i][2]].name =
                experiments[p].name \o "." \o experiments[p].variants[i][1]
    /\ (/\ RunEnded
        /\ ~last.nested
        /\ ~experiments[last.exp].function.is_base_experiment) =>
           /\ HasInfo(dirs, last.rec, "Args")
           /\ dirs[last.rec].info["Args"] = ChainArgs(last.exp)

\* C11: get_result() on a record returns the value last handed to
\* save_result on it, whether the run or user code saved it (a later save
\* replaces an earlier one), and returns None, without raising, when
\* save_result was never called on it.
C11_ResultRoundTrip ==
    /\ \A r \in 1..Len(dirs) : get_result(dirs, r) = dirs[r].saved
    /\ last.op = "save_result" => get_result(dirs, last.rec) = <<last.value>>
    /\ last.op = "get_result" =>
          /\ last.outcome = "returned"
          /\ last.result = dirs[last.rec].saved

\* C11, witness: get_result() has returned a value user code saved over the
\* result of a run, and there is a record on which nothing was saved
C11_Witness ==
    /\ last.op = "get_result"
    /\ last.result \in {<<v>> : v \in ResultValues}
    /\ HasInfo(dirs, last.rec, "Status")
    /\ dirs[last.rec].info["Status"] = "Ran Successfully"
    /\ \E r \in 1..Len(dirs) : dirs[r].saved = <<>> /\ get_result(dirs, r) = <<>>

\* experiment_exists(identifier) of directory r: it is in the record store
InStore(ds, r) ==
    /\ ds[r].exists
    /\ ds[r].directory = get_local_experiment_path(ds[r].identifier)

\* the identifiers in the record store
StoreIds(ds) == {ds[r].identifier : r \in {k \in 1..Len(ds) : InStore(ds, k)}}

\* the identifiers in the record store that were made for name
StoredFor(name) ==
    {r \in 1..Len(dirs) :
        InStore(dirs, r) /\ dirs[r].identifier = format_filename(name, r)}

\* C12: get_latest_experiment_identifier(name) returns the greatest, as
\* strings compare, of the identifiers in the record store that were made for
\* name, which is the one of the latest run of that name, and None when the
\* store has none.
C12_LatestIdentifier ==
    last.op = "get_latest" =>
        LET rs == StoredFor(last.name)
        IN  IF rs = {} THEN last.result = <<>>
            ELSE /\ last.result # <<>>
                 /\ \E r \in rs :
                       /\ last.result[1] = dirs[r].identifier
                       /\ \A k \in rs : k <= r
                       /\ \A k \in rs : ~StrLess(last.result[1], dirs[k].identifier)

\* the names the identifiers are matched against
CodecNames == FuncNames \cup {"f.v", "fxv", "f2"}

\* C13: the identifier made for a name and a time is matched by the
\* expression derived from that name, and by the expression of no other name.
C13_RegexMatchesOwnName ==
    \A r \in 1..Len(dirs) : \A m \in CodecNames :
        re_match(get_matching_template_from_experiment_name(m, <<>>, "%T-%N"),
                 dirs[r].identifier)
            <=> dirs[r].identifier = format_filename(m, r)

\* C14: a call of run() adds one new identifier to the record store when
\* keep_record resolves to true (given as True, or not given with the resolved
\* test_mode false) and none when it resolves to false; nothing else adds or
\* removes an identifier, whether the function returns or raises; and after a
\* run whose function raised with keep_record true the record is in the store
\* under its identifier and has a Status.
C14_KeepRecord ==
    [][/\ RunCalled =>
            LET keep == IF last'.keep_record = None THEN ~test_mode'
                        ELSE last'.keep_record = "True"
                n == Len(dirs')
            IN  /\ Len(dirs') = Len(dirs) + 1
                /\ IF keep
                   THEN /\ dirs'[n].identifier \notin StoreIds(dirs)
                        /\ StoreIds(dirs') = StoreIds(dirs) \cup {dirs'[n].identifier}
                   ELSE StoreIds(dirs') = StoreIds(dirs)
       /\ ~RunCalled => StoreIds(dirs') = StoreIds(dirs)
       /\ (last'.op = "run" /\ last'.fn = "raised" /\ ~dirs'[last'.rec].temp) =>
            /\ dirs'[last'.rec].identifier \in StoreIds(dirs')
            /\ HasInfo(dirs', last'.rec, "Status")
            /\ dirs'[last'.rec].info["Status"] = ErrorStatus(last'.fexc)]_vars

\* C14, witness: a run with keep_record = True in test mode has failed and
\* its record is in the store, next to a run whose record is not
C14_Witness ==
    /\ last.op = "run"
    /\ last.fn = "raised"
    /\ test_mode
    /\ ~dirs[last.rec].temp
    /\ dirs[last.rec].identifier \in StoreIds(dirs)
    /\ HasInfo(dirs, last.rec, "Status")
    /\ \E r \in 1..Len(dirs) : dirs[r].temp /\ dirs[r].identifier \notin StoreIds(dirs)

\* C15: a run that a worker of the pool makes for a dispatched name goes as
\* it would alone in a fresh process: run() starts the function of the
\* experiment, whatever the worker ran before, and when the run has ended its
\* record has the Status of what the function did.
C15_WorkersIndependent ==
    (procs.cur > 0 /\ last.op = "run") =>
        /\ last.outcome = "raised" => last.fn # "none"
        /\ last.fn = "returned" =>
              /\ HasInfo(dirs, last.rec, "Status")
              /\ dirs[last.rec].info["Status"] = "Ran Successfully"
        /\ last.fn = "raised" =>
              /\ HasInfo(dirs, last.rec, "Status")
              /\ dirs[last.rec].info["Status"] = ErrorStatus(last.fexc)

\* C16: when a call of run() that called its function has ended, the function
\* having returned or raised, none of the scopes that run opened (console
\* capture, figure show, figure save) is still open.
C16_ScopesClosedAfterRun ==
    (RunEnded /\ last.fn # "none") =>
        \A k \in 1..Len(scopes) : scopes[k].rec # last.rec

\* C17: the result of a record is written at most once by a run, and only
\* by the run of that record after its function has returned; a run whose
\* function raised writes none, and get_result() on its record returns None.
C17_ResultWrittenOnceAfterReturn ==
    [][/\ \A r \in 1..Len(dirs) :
            dirs'[r].result # dirs[r].result =>
                /\ dirs[r].result = <<>>
                /\ last'.op = "run"
                /\ last'.rec = r
                /\ last'.fn = "returned"
                /\ InFunction
                /\ Top(stack).rec = r
                /\ get_result(dirs', r) = <<last'.value>>
       /\ Len(dirs') > Len(dirs) => get_result(dirs', Len(dirs')) = <<>>
       /\ (last'.op = "run" /\ last'.fn = "raised") =>
            get_result(dirs', last'.rec) = <<>>]_vars

\* C17, witness: a run whose function raised has ended with no result, after
\* a run that wrote its result
C17_Witness ==
    /\ RunEnded
    /\ last.fn = "raised"
    /\ get_result(dirs, last.rec) = <<>>
    /\ \E r \in 1..Len(dirs) : get_result(dirs, r) # <<>>

\* the Notes of record r, none when it has no such field
NotesOf(r) == IF HasInfo(dirs, r, "Notes") THEN dirs[r].info["Notes"] ELSE <<>>

\* C18: a run of a base experiment that has notes ends with the Notes of its
\* record equal to the notes of the experiment, in the order added, whether
\* the function returned or raised, and what run() raises is what the function
\* raised.
C18_NotesRecorded ==
    (/\ RunEnded
     /\ last.fn # "none"
     /\ experiments[last.exp].function.is_base_experiment
     /\ experiments[last.exp].notes # <<>>) =>
        /\ HasInfo(dirs, last.rec, "Notes")
        /\ NotesOf(last.rec) = experiments[last.exp].notes
        /\ last.fn = "raised" => last.exc = last.fexc
        /\ (last.fn = "returned" /\ last.exc.kind # "DisplayError") =>
              last.outcome = "returned"

\* C19: a run of a variant V ends with the notes of V in the Notes of its
\* record and the static info fields of V in its info.
C19_VariantNotesRecorded ==
    (/\ RunEnded
     /\ last.fn # "none"
     /\ ~experiments[last.exp].function.is_base_experiment) =>
        /\ NotesOf(last.rec) = experiments[last.exp].notes
        /\ \A k \in DOMAIN experiments[last.exp].info :
              /\ HasInfo(dirs, last.rec, k)
              /\ dirs[last.rec].info[k] = experiments[last.exp].info[k]

\* C20: a run that returns has left the scopes of record_experiment in the
\* order figure save, console capture, figure show, and deregistered the
\* current experiment after the three exits.
C20_ExitOrder ==
    (RunEnded /\ last.outcome = "returned") =>
        last.events = <<"record = None", "exit save", "exit log", "exit show",
                        "deregister">>

----------------------------------------------------------------------------

\* C21: delete_experiment_with_id(identifier) removes the record of the
\* identifier when there is one, leaving every other record as it was, and
\* fails, changing nothing, when there is none; so a second delete of the same
\* identifier fails
C21_DeleteReportsMissing ==
    [][last'.op = "delete" =>
          IF experiment_exists(dirs, last'.name)
          THEN /\ last'.outcome = "returned"
               /\ ~experiment_exists(dirs', last'.name)
               /\ \A k \in 1..Len(dirs) :
                      dirs[k].identifier # last'.name => dirs'[k] = dirs[k]
          ELSE /\ last'.outcome = "raised"
               /\ dirs' = dirs]_vars

\* the records in the store that run(version = version) of the experiment
\* named name produced
StoredForVersion(name, version) ==
    {r \in 1..Len(dirs) :
        /\ InStore(dirs, r)
        /\ experiments[started[r].exp].name = name
        /\ started[r].version = version}

\* C22: the expression of a (name, version) pair matches only identifiers
\* that a run of that name with that version produced, and after
\* run(version = v) of the experiment named n has left a record in the store,
\* get_latest_experiment_identifier(n, version = v) returns the identifier of
\* such a record
C22_VersionsPartition ==
    /\ \A r \in 1..Len(dirs), name \in CodecNames, version \in OptVersion :
          re_match(get_matching_template_from_experiment_name(name, version, "%T-%N"),
                   dirs[r].identifier)
            => /\ name = experiments[started[r].exp].name
               /\ version = started[r].version
    /\ (last.op = "get_latest" /\ last.version # <<>>) =>
          LET rs == StoredForVersion(last.name, last.version)
          IN  rs # {} =>
                /\ last.result # <<>>
                /\ \E r \in rs : last.result[1] = dirs[r].identifier

\* the library lib over the experiments exps: every entry maps a name to a
\* non-root experiment of that name, every non-root experiment is the entry
\* of its name, and no root experiment is an entry
RegistryComplete(lib, exps) ==
    /\ \A n \in DOMAIN lib :
          /\ lib[n] \in 1..Len(exps)
          /\ ~exps[lib[n]].is_root
          /\ exps[lib[n]].name = n
    /\ \A e \in 1..Len(exps) :
          ~exps[e].is_root => exps[e].name \in DOMAIN lib /\ lib[exps[e].name] = e
    /\ \A e \in 1..Len(exps) :
          exps[e].is_root => \A n \in DOMAIN lib : lib[n] # e

\* C23: after every creation of an experiment and every add_variant /
\* add_root_variant the library holds exactly the non-root experiments created
\* so far, each under its own name, and no name ever leaves the library
C23_RegistryInvariant ==
    [][/\ RegistryComplete(library', experiments')
       /\ DOMAIN library \subseteq DOMAIN library']_vars

\* user code executes: the decorated function, a display function, or code
\* between two API calls
UserCodeExecuting ==
    \/ AtTopLevel
    \/ InFunction
    \/ stack # <<>> /\ Top(stack).kind = "run" /\ Top(stack).pc = "display"

\* the three fields of the guard are all None or all set
GuardFieldsTogether ==
    /\ (cur_id = None) = (cur_name = None)
    /\ (cur_id = None) = (cur_record = 0)
    /\ cur_record # 0 => cur_record \in 1..Len(dirs)

\* record r is the one record whose Identifier info is the current identifier
CurrentRecordIdentified(r) ==
    \A k \in 1..Len(dirs) :
        (/\ HasInfo(dirs, k, "Identifier")
         /\ dirs[k].info["Identifier"] = cur_id) <=> k = r

\* C24: whenever user code executes, _CURRENT_EXPERIMENT_ID,
\* _CURRENT_EXPERIMENT_NAME and _CURRENT_EXPERIMENT_RECORD are all None or all
\* set, and when they are set the current record is the one record whose
\* Identifier info is the current identifier
C24_GuardConsistent ==
    UserCodeExecuting =>
        /\ GuardFieldsTogether
        /\ cur_record # 0 => CurrentRecordIdentified(cur_record)

\* the base experiment whose function a call of e executes
BaseOf(e) == Resolve(e, EmptyMap).base

\* C25: the record of a run is written by that run only: when a run whose
\* function started, and which was not started from inside another run, has
\* ended, the Args, Function, Module and Status of its record are those of
\* the experiment that ran, also when its function called another base
\* experiment as a plain function
C25_RecordWrittenByOwnRun ==
    (RunEnded /\ last.fn # "none" /\ ~last.nested) =>
        LET r == last.rec
            fname == experiments[BaseOf(last.exp)].function.fname
        IN  /\ HasInfo(dirs, r, "Args")
            /\ dirs[r].info["Args"] = ChainArgs(last.exp)
            /\ HasInfo(dirs, r, "Function")
            /\ dirs[r].info["Function"] = fname
            /\ HasInfo(dirs, r, "Module")
            /\ dirs[r].info["Module"] = "module.py"
            /\ HasInfo(dirs, r, "Status")
            /\ dirs[r].info["Status"] =
                  IF last.fn = "returned" THEN "Ran Successfully"
                  ELSE ErrorStatus(last.fexc)

Init ==
    /\ experiments = <<>>
    /\ library = EmptyMap
    /\ cur_id = None
    /\ cur_name = None
    /\ cur_record = 0
    /\ test_mode = FALSE
    /\ dirs = <<>>
    /\ scopes = <<>>
    /\ stack = <<>>
    /\ started = <<>>
    /\ last = NoCall
    /\ procs = NoPool

\* the modules load: functions are decorated, variants and notes added
NextLoad ==
    \/ \E fname \in FuncNames : \E is_root \in BaseRoots(fname) :
          ExperimentFunction(fname, is_root)
    \/ \E p \in 1..MaxExp, name \in VariantNames :
          \E is_root \in VariantRoots(name) :
             create_experiment_variant(p, name, is_root)
    \/ \E e \in 1..MaxExp, note \in NoteTexts : add_note(e, note)

Next ==
    \/ NextLoad
    \/ \E e \in 1..MaxExp, tm \in OptBool : Run(e, tm, None)
    \/ \E e \in 1..MaxExp : NestedRun(e)
    \/ FunctionReturn
    \/ FunctionRaise
    \/ DisplayReturn
    \/ DisplayRaise
    \/ \E e \in 1..MaxExp : PlainCall(e)
    \/ \E e \in 1..MaxExp : run_all(e)
    \/ RunAllStep
    \/ RunAllReturn
    \/ RunAllRaise

Spec == Init /\ [][Next]_vars

\* records and the record store: experiments are decorated and run with every
\* choice of test_mode and keep_record, and user code reads and writes the
\* records
NextStore ==
    \/ \E fname \in FuncNames : \E is_root \in BaseRoots(fname) :
          Len(experiments) < MaxStoreExp /\ ExperimentFunction(fname, is_root)
    \/ \E e \in 1..MaxStoreExp, note \in NoteTexts : add_note(e, note)
    \/ \E e \in 1..MaxStoreExp, tm \in OptBool, kr \in OptBool : Run(e, tm, kr)
    \/ FunctionReturn
    \/ FunctionRaise
    \/ DisplayReturn
    \/ DisplayRaise
    \/ \E r \in 1..MaxRuns, value \in ResultValues : user_save_result(r, value)
    \/ \E r \in 1..MaxRuns : user_get_result(r)
    \/ \E name \in FuncNames : get_latest_experiment_identifier(name, <<>>)

SpecStore == Init /\ [][NextStore]_vars

\* the multi-process fan-out: the experiments are defined, then process 0 calls
\* run_all_multiprocess and the workers run the experiments
NextPool ==
    \/ NextLoad
    \/ \E e \in 1..MaxExp : run_all_multiprocess(e)
    \/ \E p \in 0..Workers : Switch(p)
    \/ WorkerRun
    \/ FunctionReturn
    \/ FunctionRaise
    \/ DisplayReturn
    \/ DisplayRaise
    \/ PoolReturn

SpecPool == Init /\ [][NextPool]_vars

\* the program up to the first run
\* user code that runs experiments and then looks up and deletes records
NextLookup ==
    \/ \E fname \in FuncNames : \E is_root \in BaseRoots(fname) :
          Len(experiments) < MaxStoreExp /\ ExperimentFunction(fname, is_root)
    \/ \E e \in 1..MaxStoreExp, kr \in OptBool : Run(e, None, kr)
    \/ \E e \in 1..MaxStoreExp, version \in Versions : RunVersion(e, <<version>>)
    \/ FunctionReturn
    \/ FunctionRaise
    \/ DisplayReturn
    \/ DisplayRaise
    \/ \E identifier \in KnownIds : delete_experiment_with_id(identifier)
    \/ \E identifier \in KnownIds : user_experiment_exists(identifier)
    \/ \E name \in FuncNames, version \in OptVersion :
          get_latest_experiment_identifier(name, version)

SpecLookup == Init /\ [][NextLookup]_vars

SpecLoad == Init /\ [][NextLoad]_vars

====
